---- MODULE Spec2Model ----
(***************************************************************************)
(* Model of remove_watermark.py: the memoized watermark template, the      *)
(* alpha inversion (recover_background), the cross-correlation shift       *)
(* detector (get_shifts) and the orchestration in remove_watermark.        *)
(*                                                                         *)
(* Floating-point values are modelled as exact rationals <<n, d>> in       *)
(* lowest terms with d > 0, plus the three IEEE specials a division by     *)
(* zero produces: <<1,0>> (+inf), <<-1,0>> (-inf), <<0,0>> (NaN).          *)
(* An array of dtype "float16" rounds every operation to binary16; the     *)
(* dtype "float" computes exactly.                                         *)
(***************************************************************************)
EXTENDS Integers, Sequences, FiniteSets, TLC

VARIABLES
    \* ---- the memoized template (process-wide) and the threads using it
    asset,      \* what watermark.exr holds: [kind, img]
    cache,      \* memo of _get_watermark_image: <<>> or <<the cached image>>
    loads,      \* how many times the body's load_image call has run
    files,      \* load_image's own cache by path, and the reads of the file
    pc,         \* per thread: position inside a fetch
    ret,        \* per thread: outcome of its latest fetch
    nfetch,     \* fetches started so far, by any thread
    hist,       \* outcomes of the completed fetches, in completion order
    \* ---- recover_background applied to a synthetic composite
    rb,         \* [phase, bg, wm, comp, out]
    \* ---- the shift detector applied to a placed template
    sd,         \* [phase, tpl, off, frame, shift]
    \* ---- sequential remove_watermark calls
    rw          \* [phase, base, p, given, video, res]

vars == <<asset, cache, loads, files, pc, ret, nfetch, hist, rb, sd, rw>>

(***************************************************************************)
(* Bounds of the model.                                                    *)
(***************************************************************************)
NThreads == 2
MaxFetches == 3
MaxT == 2
MaxDim == 2

Channels == 3

(***************************************************************************)
(* Rational arithmetic standing for the float arithmetic of numpy/torch.   *)
(***************************************************************************)
Abs(x) == IF x < 0 THEN -x ELSE x

Sign(x) == IF x < 0 THEN -1 ELSE IF x > 0 THEN 1 ELSE 0

RECURSIVE Gcd(_, _)
Gcd(a, b) == IF b = 0 THEN a ELSE Gcd(b, a % b)

Reduced(n, d, g) == <<n \div g, d \div g>>

\* n/d in lowest terms; a zero denominator gives the IEEE special.
Q(n, d) ==
    IF d = 0 THEN <<Sign(n), 0>>
    ELSE IF d = 1 THEN <<n, 1>>
    ELSE IF d < 0 THEN Reduced(-n, -d, Gcd(Abs(n), -d))
    ELSE Reduced(n, d, Gcd(Abs(n), d))

Zero == <<0, 1>>
One == <<1, 1>>
Half == <<1, 2>>
NaN == <<0, 0>>
PosInf == <<1, 0>>
NegInf == <<-1, 0>>

IsFinite(x) == x[2] # 0

\* Least common denominator of two finite values.
Lcd(a, b) == (a[2] \div Gcd(a[2], b[2])) * b[2]

\* The numerator of a over the denominator L, a multiple of a's own.
Over(a, L) == a[1] * (L \div a[2])

AddOver(a, b, L) == Q(Over(a, L) + Over(b, L), L)

SubOver(a, b, L) == Q(Over(a, L) - Over(b, L), L)

QAdd(a, b) ==
    IF a[2] = b[2] THEN Q(a[1] + b[1], a[2]) ELSE AddOver(a, b, Lcd(a, b))

QSub(a, b) ==
    IF a[2] = b[2] THEN Q(a[1] - b[1], a[2]) ELSE SubOver(a, b, Lcd(a, b))
QMul(a, b) == Q(a[1] * b[1], a[2] * b[2])
\* x / 0 is +-inf for x # 0 and NaN for 0 / 0, as numpy and torch compute it.
QDiv(a, b) == Q(a[1] * b[2], a[2] * b[1])
LtOver(a, b, L) == Over(a, L) < Over(b, L)

QLt(a, b) == IF a[2] = b[2] THEN a[1] < b[1] ELSE LtOver(a, b, Lcd(a, b))

QLe(a, b) == IF a[2] = b[2] THEN a[1] <= b[1] ELSE ~LtOver(b, a, Lcd(a, b))

InUnit(x) == IsFinite(x) /\ QLe(Zero, x) /\ QLe(x, One)

\* np.clip / torch.clamp: NaN propagates, the infinities saturate.
clip(x, min_val, max_val) ==
    IF x = NaN THEN NaN
    ELSE IF x = PosInf THEN max_val
    ELSE IF x = NegInf THEN min_val
    ELSE IF QLt(x, min_val) THEN min_val
    ELSE IF QLt(max_val, x) THEN max_val
    ELSE x

(***************************************************************************)
(* Rounding.  An array of dtype "float" computes in the exact arithmetic   *)
(* above, which stands for a float wide enough to hold the values at hand; *)
(* an array of dtype "float16" (torch.float16, np.float16) rounds the      *)
(* result of every operation to binary16: 11 significant bits, least       *)
(* exponent -24, ties to even.                                             *)
(***************************************************************************)
RECURSIVE BitLen(_)
BitLen(n) == IF n = 0 THEN 0 ELSE 1 + BitLen(n \div 2)

\* n / d rounded to the nearest integer, a tie to the even one.
RoundDiv(n, d) ==
    IF 2 * (n % d) < d THEN n \div d
    ELSE IF 2 * (n % d) > d THEN (n \div d) + 1
    ELSE (n \div d) + ((n \div d) % 2)

\* floor(log2(n / d)) for n, d > 0, given L = BitLen(n) - BitLen(d)
FloorLog2(n, d, L) ==
    IF L >= 0 THEN (IF n >= d * 2^L THEN L ELSE L - 1)
    ELSE (IF n * 2^(-L) >= d THEN L ELSE L - 1)

\* The exponent of the last kept bit of n / d.
UlpExp(n, d) ==
    IF FloorLog2(n, d, BitLen(n) - BitLen(d)) - 10 < -24 THEN -24
    ELSE FloorLog2(n, d, BitLen(n) - BitLen(d)) - 10

\* n / d > 0 as a multiple of 2^e, e <= 0; beyond 65504 it overflows.
RoundAt(n, d, e, g) ==
    Q(RoundDiv(n * (2^(-e) \div g), d \div g), 2^(-e))

RoundPositive(n, d, e) ==
    IF e > 0 THEN (IF n \div d >= 65520 THEN PosInf
                   ELSE <<RoundDiv(n, d * 2^e) * 2^e, 1>>)
    ELSE RoundAt(n, d, e, Gcd(2^(-e), d))

float16(x) ==
    IF ~IsFinite(x) \/ x[1] = 0 THEN x
    ELSE IF x[1] < 0
    THEN QSub(Zero, RoundPositive(-x[1], x[2], UlpExp(-x[1], x[2])))
    ELSE RoundPositive(x[1], x[2], UlpExp(x[1], x[2]))

\* The result of one arithmetic operation as the dtype stores it.
fl(x, dtype) == IF dtype = "float16" THEN float16(x) ELSE x

\* Type promotion: the narrow type only when both operands have it.
result_type(d1, d2) == IF d1 = "float16" /\ d2 = "float16" THEN "float16" ELSE "float"

(***************************************************************************)
(* Arrays.  An array is [shape, at, backend, dtype]: at maps each index    *)
(* tuple (0-based, one entry per axis) to an element.                      *)
(***************************************************************************)
Idx2(s) == {<<y, x>> : y \in 0..(s[1] - 1), x \in 0..(s[2] - 1)}

Idx3(s) == {<<y, x, c>> : y \in 0..(s[1] - 1), x \in 0..(s[2] - 1), c \in 0..(s[3] - 1)}

Idx4(s) ==
    {<<t, y, x, c>> : t \in 0..(s[1] - 1), y \in 0..(s[2] - 1),
                      x \in 0..(s[3] - 1), c \in 0..(s[4] - 1)}

Arr(shape, at, backend, dtype) ==
    [shape |-> shape, at |-> at, backend |-> backend, dtype |-> dtype]

(***************************************************************************)
(* recover_background, lines 110-120.  composite_images is (T,H,W,3),      *)
(* rgba_watermark is (H,W,4); alpha (H,W,1) and rgb (H,W,3) broadcast over *)
(* the frames.                                                             *)
(***************************************************************************)
watermark_rgb(rgba_watermark, y, x, c) == rgba_watermark.at[<<y, x, c>>]

watermark_alpha(rgba_watermark, y, x) == rgba_watermark.at[<<y, x, 3>>]

\* The inversion with the watermark's own contribution not weighted by alpha.
recover_pixel_unweighted(composite, rgb, alpha, dtype) ==
    clip(fl(QDiv(fl(QSub(composite, rgb), dtype), fl(QSub(One, alpha), dtype)), dtype),
         Zero, One)

\* lines 117-118 at one element
recover_pixel(composite, rgb, alpha, dtype) ==
    clip(fl(QDiv(fl(QSub(composite, fl(QMul(alpha, rgb), dtype)), dtype),
                 fl(QSub(One, alpha), dtype)), dtype),
         Zero, One)

recover_background(composite_images, rgba_watermark) ==
    Arr(composite_images.shape,
        [i \in Idx4(composite_images.shape) |->
            recover_pixel(composite_images.at[i],
                          watermark_rgb(rgba_watermark, i[2], i[3], i[4]),
                          watermark_alpha(rgba_watermark, i[2], i[3]),
                          result_type(composite_images.dtype, rgba_watermark.dtype))],
        composite_images.backend,
        result_type(composite_images.dtype, rgba_watermark.dtype))

(***************************************************************************)
(* Input families.  Arrays are drawn from seeded patterns over small value *)
(* grids, so that they vary along every axis.                              *)
(***************************************************************************)
GridSeq == <<Zero, Half, One>>

AlphaSeq == <<Zero, Half, <<3, 4>>, One>>

Pick(seq, k) == seq[(k % Len(seq)) + 1]

Seeds == {<<s0, s1, s2, s3>> : s0 \in 0..2, s1 \in 0..1, s2 \in 0..1, s3 \in 0..1}

PatRGBA(H, W, a0, a1, r0) ==
    Arr(<<H, W, Channels + 1>>,
        [i \in Idx3(<<H, W, Channels + 1>>) |->
            IF i[3] = Channels
            THEN Pick(AlphaSeq, a0 + a1 * (i[1] * W + i[2]))
            ELSE Pick(GridSeq, r0 + i[3] + i[1] * W + i[2])],
        "numpy", "float")

Off == [phase |-> "off"]

(***************************************************************************)
(* The memoized template: @memoized over _get_watermark_image, lines 60-66.*)
(* The decorator looks its (empty) argument key up in a dictionary, calls  *)
(* the function on a miss and stores what it returns; a raised assertion   *)
(* leaves the dictionary as it was.  It takes no lock.                     *)
(***************************************************************************)
Threads == 1..NThreads

AssetKinds == {"rgba_float", "rgb_float", "rgba_uint8"}

TemplateShapes == {<<h, w>> : h \in 1..MaxDim, w \in 1..MaxDim}

Templates ==
    {PatRGBA(s[1], s[2], a0, 1, r0) : s \in TemplateShapes, a0 \in {0, 1}, r0 \in {0, 2}}

Assets == [kind : AssetKinds, img : Templates]

\* The fetches do not look inside the image: two images tell a cached value apart.
MemoAssets == [kind : AssetKinds, img : {PatRGBA(1, 1, a0, 1, 0) : a0 \in {0, 1}}]

is_rgba_image(a) == a.kind \in {"rgba_float", "rgba_uint8"}

is_float_image(a) == a.kind \in {"rgba_float", "rgb_float"}

\* A decorator that forgets what the function returned.
memo_store_nothing(value) == <<>>

\* What the dictionary holds after the wrapped function returned value.
memo_store(value) == <<value>>

\* Whether a lookup answers from the dictionary.
memo_hit(c) == c # <<>>

\* rp.load_image(path, use_cache=True): whether the path is already cached
load_image_hit(f) == f.cached # <<>>

\* rp.load_image reading the file and caching what it read under the path
load_image_read(f, a) == [reads |-> f.reads + 1, cached |-> <<a>>]

\* rp.load_image(path, use_cache=True) run without interruption
load_image(f, a) == IF load_image_hit(f) THEN f ELSE load_image_read(f, a)

NoFiles == [reads |-> 0, cached |-> <<>>]

Done(t, outcome) ==
    /\ ret' = [ret EXCEPT ![t] = outcome]
    /\ pc' = [pc EXCEPT ![t] = "idle"]
    /\ hist' = Append(hist, [thread |-> t, out |-> outcome])

Begin(t) ==
    /\ pc[t] = "idle"
    /\ nfetch < MaxFetches
    /\ pc' = [pc EXCEPT ![t] = "lookup"]
    /\ nfetch' = nfetch + 1
    /\ ret' = [ret EXCEPT ![t] = [st |-> "pending"]]
    /\ UNCHANGED <<asset, cache, loads, files, hist>>

LookupHit(t) ==
    /\ pc[t] = "lookup"
    /\ memo_hit(cache)
    /\ Done(t, [st |-> "ok", val |-> cache[1]])
    /\ UNCHANGED <<asset, cache, loads, files, nfetch>>

LookupMiss(t) ==
    /\ pc[t] = "lookup"
    /\ ~memo_hit(cache)
    /\ pc' = [pc EXCEPT ![t] = "load"]
    /\ UNCHANGED <<asset, cache, loads, files, ret, nfetch, hist>>

\* line 63: load_image(watermark_path, use_cache=True) starts and looks the
\* path up in its own cache, which like the memo is read and written
\* without a lock.
Load(t) ==
    /\ pc[t] = "load"
    /\ loads' = loads + 1
    /\ pc' = [pc EXCEPT ![t] = IF load_image_hit(files) THEN "validate" ELSE "read"]
    /\ UNCHANGED <<asset, cache, files, ret, nfetch, hist>>

\* line 63, on a miss: the file is read and kept under its path
Read(t) ==
    /\ pc[t] = "read"
    /\ files' = load_image_read(files, asset)
    /\ pc' = [pc EXCEPT ![t] = "validate"]
    /\ UNCHANGED <<asset, cache, loads, ret, nfetch, hist>>

\* lines 64-65: a failed assertion propagates through the decorator
ValidateFail(t) ==
    /\ pc[t] = "validate"
    /\ ~(is_rgba_image(asset) /\ is_float_image(asset))
    /\ Done(t, [st |-> "AssertionError"])
    /\ UNCHANGED <<asset, cache, loads, files, nfetch>>

ValidateOk(t) ==
    /\ pc[t] = "validate"
    /\ is_rgba_image(asset) /\ is_float_image(asset)
    /\ pc' = [pc EXCEPT ![t] = "store"]
    /\ UNCHANGED <<asset, cache, loads, files, ret, nfetch, hist>>

\* line 66 and the decorator's store
Store(t) ==
    /\ pc[t] = "store"
    /\ cache' = memo_store(asset.img)
    /\ Done(t, [st |-> "ok", val |-> asset.img])
    /\ UNCHANGED <<asset, loads, files, nfetch>>

MemoIdle ==
    /\ cache = <<>>
    /\ loads = 0
    /\ files = NoFiles
    /\ pc = [t \in Threads |-> "idle"]
    /\ ret = [t \in Threads |-> [st |-> "none"]]
    /\ nfetch = 0
    /\ hist = <<>>

InitMemo ==
    /\ asset \in MemoAssets
    /\ MemoIdle
    /\ rb = Off /\ sd = Off /\ rw = Off

\* Threads fetch the template concurrently, one decorator step at a time.
NextMemo ==
    \E t \in Threads :
        \/ Begin(t) /\ UNCHANGED <<rb, sd, rw>>
        \/ LookupHit(t) /\ UNCHANGED <<rb, sd, rw>>
        \/ LookupMiss(t) /\ UNCHANGED <<rb, sd, rw>>
        \/ Load(t) /\ UNCHANGED <<rb, sd, rw>>
        \/ Read(t) /\ UNCHANGED <<rb, sd, rw>>
        \/ ValidateFail(t) /\ UNCHANGED <<rb, sd, rw>>
        \/ ValidateOk(t) /\ UNCHANGED <<rb, sd, rw>>
        \/ Store(t) /\ UNCHANGED <<rb, sd, rw>>

SpecMemo == InitMemo /\ [][NextMemo]_vars

\* A sequential series of fetches: a fetch starts only when none is running.
BeginSeq(t) ==
    /\ \A u \in Threads : pc[u] = "idle"
    /\ Begin(t)

NextSeq ==
    \E t \in Threads :
        \/ BeginSeq(t) /\ UNCHANGED <<rb, sd, rw>>
        \/ LookupHit(t) /\ UNCHANGED <<rb, sd, rw>>
        \/ LookupMiss(t) /\ UNCHANGED <<rb, sd, rw>>
        \/ Load(t) /\ UNCHANGED <<rb, sd, rw>>
        \/ Read(t) /\ UNCHANGED <<rb, sd, rw>>
        \/ ValidateFail(t) /\ UNCHANGED <<rb, sd, rw>>
        \/ ValidateOk(t) /\ UNCHANGED <<rb, sd, rw>>
        \/ Store(t) /\ UNCHANGED <<rb, sd, rw>>

SpecSeq == InitMemo /\ [][NextSeq]_vars

AssetValid == is_rgba_image(asset) /\ is_float_image(asset)

Validating == {t \in Threads : pc[t] \in {"read", "validate"}}

(* C1: when several callers use the template for the first time            *)
(* concurrently, the load of _get_watermark_image runs at most once.       *)
(* Stated for an asset that passes validation, so that a second load can   *)
(* only come from two callers missing the memo together.                   *)
C1_LoadedAtMostOnce == AssetValid => loads <= 1

(* C2 as stated: in a sequential series of fetches, also one whose first   *)
(* fetch fails validation, only the first fetch reads the asset from       *)
(* storage and every later fetch returns the value the first one cached.   *)
C2_LaterFetchesReturnCached ==
    /\ files.reads <= 1
    /\ \A i \in 2..Len(hist) :
          /\ cache # <<>>
          /\ hist[i].out = [st |-> "ok", val |-> cache[1]]

(* C2 amended: in a sequential series only the first fetch reads the asset *)
(* from storage.  If the asset passes validation only the first fetch runs *)
(* the body and every fetch returns the value the first one cached; if it  *)
(* fails validation nothing is memoized and every fetch runs load_image    *)
(* (answered from its own cache after the first) and the validation again  *)
(* and fails the same way.                                                 *)
C2_SequentialFetches ==
    /\ files.reads <= 1
    /\ AssetValid =>
          /\ loads <= 1
          /\ \A i \in 1..Len(hist) : hist[i].out = [st |-> "ok", val |-> asset.img]
          /\ (Len(hist) >= 1 => cache = <<asset.img>> /\ loads = 1)
    /\ ~AssetValid =>
          /\ cache = <<>>
          /\ \A i \in 1..Len(hist) : hist[i].out = [st |-> "AssertionError"]
          /\ loads = Len(hist) + Cardinality(Validating)
          /\ Len(hist) >= 1 => files = [reads |-> 1, cached |-> <<asset>>]

\* A second fetch was answered from the memo after the first one loaded.
C2_Witness ==
    /\ Len(hist) >= 2
    /\ hist[2].out.st = "ok"
    /\ loads = 1

(***************************************************************************)
(* recover_background on a synthetic composite: a background and an RGBA   *)
(* watermark of the frame's size are drawn, composited with                *)
(* alpha*rgb + (1-alpha)*background, and handed to recover_background.     *)
(***************************************************************************)
DefaultAsset == [kind |-> "rgba_float", img |-> PatRGBA(1, 1, 0, 1, 0)]

\* Background values: the binary16 nearest to 1/3 beside the halves.
ThirdSeq == <<Zero, <<1365, 4096>>, Half, One>>

Floats == {"float", "float16"}

AsType(x, dtype) == Arr(x.shape, x.at, "torch", dtype)

BgVideo(T, H, W, s, dtype) ==
    Arr(<<T, H, W, Channels>>,
        [i \in Idx4(<<T, H, W, Channels>>) |->
            Pick(ThirdSeq, s[1] + s[2] * i[1] + s[3] * (i[2] * W + i[3]) + s[4] * i[4])],
        "torch", dtype)

\* alpha * rgb + (1 - alpha) * background, computed in the arrays' type
composite_pixel(background, rgb, alpha, dtype) ==
    fl(QAdd(fl(QMul(alpha, rgb), dtype),
            fl(QMul(fl(QSub(One, alpha), dtype), background), dtype)), dtype)

InitRecover ==
    /\ asset = DefaultAsset
    /\ MemoIdle
    /\ sd = Off /\ rw = Off
    /\ \E T \in 1..MaxT, H \in 1..MaxDim, W \in 1..MaxDim, s \in Seeds,
          a0 \in 0..(Len(AlphaSeq) - 1), a1 \in 0..1, r0 \in 0..(Len(GridSeq) - 1),
          dtype \in Floats :
          rb = [phase |-> "init", bg |-> BgVideo(T, H, W, s, dtype),
                wm |-> AsType(PatRGBA(H, W, a0, a1, r0), dtype)]

Compose ==
    /\ rb.phase = "init"
    /\ rb' = [phase |-> "composed", bg |-> rb.bg, wm |-> rb.wm,
              comp |-> Arr(rb.bg.shape,
                           [i \in Idx4(rb.bg.shape) |->
                               composite_pixel(rb.bg.at[i],
                                               watermark_rgb(rb.wm, i[2], i[3], i[4]),
                                               watermark_alpha(rb.wm, i[2], i[3]),
                                               rb.bg.dtype)],
                           rb.bg.backend, rb.bg.dtype)]
    /\ UNCHANGED <<asset, cache, loads, files, pc, ret, nfetch, hist, sd, rw>>

Recover ==
    /\ rb.phase = "composed"
    /\ rb' = [phase |-> "recovered", bg |-> rb.bg, wm |-> rb.wm, comp |-> rb.comp,
              out |-> recover_background(rb.comp, rb.wm)]
    /\ UNCHANGED <<asset, cache, loads, files, pc, ret, nfetch, hist, sd, rw>>

NextRecover == Compose \/ Recover

SpecRecover == InitRecover /\ [][NextRecover]_vars

Tolerance == <<1, 10000>>

QAbs(x) == <<Abs(x[1]), x[2]>>

Near(x, y) == IsFinite(x) /\ IsFinite(y) /\ QLe(QAbs(QSub(x, y)), Tolerance)

\* Half an ulp of 1 in the dtype; exact arithmetic has none.
unit_roundoff(dtype) == IF dtype = "float16" THEN <<1, 2048>> ELSE Zero

\* 5 u / (1 - alpha)
RoundingBound(alpha, dtype) ==
    QDiv(QMul(<<5, 1>>, unit_roundoff(dtype)), QSub(One, alpha))

Opaque(i) == watermark_alpha(rb.wm, i[2], i[3]) = One

(* C4 as stated: recover_background applied to alpha*rgb + (1-alpha)*b     *)
(* with the same rgb and alpha returns b within 1e-4 at every pixel,       *)
(* channel and frame whose alpha is below 1; with alpha = 0 everywhere it  *)
(* returns the composite exactly.                                          *)
C4_RecoverRoundTrip ==
    rb.phase = "recovered" =>
        /\ rb.out.shape = rb.bg.shape
        /\ \A i \in Idx4(rb.bg.shape) :
              ~Opaque(i) => Near(rb.out.at[i], rb.bg.at[i])
        /\ (\A i \in Idx4(rb.bg.shape) : watermark_alpha(rb.wm, i[2], i[3]) = Zero)
              => rb.out.at = rb.comp.at

(* C4 amended: where alpha < 1 the returned value differs from b by at     *)
(* most 5u / (1 - alpha), u the unit roundoff of the arrays' float type:   *)
(* exactly b in exact arithmetic, and b itself wherever alpha = 0; with    *)
(* alpha = 0 everywhere the composite frame is returned exactly.           *)
C4_RecoverWithinRounding ==
    rb.phase = "recovered" =>
        /\ rb.out.shape = rb.bg.shape
        /\ \A i \in Idx4(rb.bg.shape) :
              ~Opaque(i) =>
                  /\ IsFinite(rb.out.at[i])
                  /\ QLe(QAbs(QSub(rb.out.at[i], rb.bg.at[i])),
                         RoundingBound(watermark_alpha(rb.wm, i[2], i[3]), rb.out.dtype))
                  /\ watermark_alpha(rb.wm, i[2], i[3]) = Zero
                        => rb.out.at[i] = rb.bg.at[i]
        /\ (\A i \in Idx4(rb.bg.shape) : watermark_alpha(rb.wm, i[2], i[3]) = Zero)
              => rb.out.at = rb.comp.at

\* A binary16 video of several frames and pixels in which a partly
\* transparent pixel came back rounded away from its background, and
\* another one came back exactly.
C4_Witness ==
    /\ rb.phase = "recovered"
    /\ rb.out.dtype = "float16"
    /\ rb.bg.shape[1] > 1 /\ rb.bg.shape[3] > 1
    /\ \E i \in Idx4(rb.bg.shape) :
          /\ ~Opaque(i)
          /\ rb.out.at[i] # rb.bg.at[i]
          /\ ~Near(rb.out.at[i], rb.bg.at[i])
    /\ \E i \in Idx4(rb.bg.shape) :
          /\ QLt(Zero, watermark_alpha(rb.wm, i[2], i[3])) /\ ~Opaque(i)
          /\ rb.comp.at[i] # rb.bg.at[i]
          /\ rb.out.at[i] = rb.bg.at[i]

(***************************************************************************)
(* The shift detector: cross_corr and best_shift inside get_shifts, lines  *)
(* 123-148, and _roll, lines 43-46.                                        *)
(***************************************************************************)
\* np.roll / torch.roll along the first two axes: out[y, x, ...] is
\* x[y - shift[1], x - shift[2], ...], indices taken modulo the axis length.
roll(x, shift, dims) ==
    Arr(x.shape,
        [i \in DOMAIN x.at |->
            x.at[[i EXCEPT ![dims[1]] = (i[dims[1]] - shift[1]) % x.shape[dims[1]],
                           ![dims[2]] = (i[dims[2]] - shift[2]) % x.shape[dims[2]]]]],
        x.backend, x.dtype)

\* np.fft.ifftshift: the roll by -(n // 2), which differs for odd n.
ifftshift(x) == roll(x, <<-(x.shape[1] \div 2), -(x.shape[2] \div 2)>>, <<1, 2>>)

\* np.fft.fftshift: every axis rolled by n // 2, so index 0 lands on n // 2.
fftshift(x) == roll(x, <<x.shape[1] \div 2, x.shape[2] \div 2>>, <<1, 2>>)

\* f, whose domain is S, with every element computed once.
Eager(f, S) == f @@ [i \in S \ DOMAIN f |-> Zero]

RECURSIVE QSum(_, _)
QSumFrom(f, S, i) == QAdd(f[i], QSum(f, S \ {i}))

QSum(f, S) == IF S = {} THEN Zero ELSE QSumFrom(f, S, CHOOSE j \in S : TRUE)

\* ifft2(fft2(img1) * conj(fft2(img2))) is the circular cross-correlation
\* sum over n of img1[n + k] * img2[n]; its imaginary part is zero.
cross_corr(img1, img2) ==
    fftshift(
        Arr(img1.shape,
            Eager([k \in Idx2(img1.shape) |->
                      QSum([n \in Idx2(img1.shape) |->
                               QMul(img1.at[<<(n[1] + k[1]) % img1.shape[1],
                                              (n[2] + k[2]) % img1.shape[2]>>],
                                    img2.at[n])],
                           Idx2(img1.shape))],
                  Idx2(img1.shape)),
            "numpy", "float"))

\* Row-major position of an index, the order np.argmax scans in.
Flat(i, shape) == i[1] * shape[2] + i[2]

\* np.unravel_index(np.argmax(corr), corr.shape): the first maximum.
argmax(corr) ==
    CHOOSE i \in Idx2(corr.shape) :
        \A j \in Idx2(corr.shape) :
            /\ QLe(corr.at[j], corr.at[i])
            /\ (Flat(j, corr.shape) < Flat(i, corr.shape) => QLt(corr.at[j], corr.at[i]))

\* lines 144-148: <<dx, dy>> from the location of the maximum
shift_of(max_loc, watermark) ==
    <<max_loc[2] - watermark.shape[2] \div 2, max_loc[1] - watermark.shape[1] \div 2>>

\* Returns <<dx, dy>>.
best_shift(frame, watermark) == shift_of(argmax(cross_corr(frame, watermark)), watermark)

(***************************************************************************)
(* The detector on a placed template: a grayscale template is rolled by a  *)
(* known offset of at most half the frame either way to make the frame,    *)
(* and best_shift is asked for the offset.                                 *)
(***************************************************************************)
MaxSide == 4

\* A ph x pw patch in the top-left corner of an H x W field of zeros; with
\* chk the patch carries a checkerboard of 1 and 2, otherwise it is flat.
PatchTemplate(H, W, ph, pw, chk) ==
    Arr(<<H, W>>,
        [i \in Idx2(<<H, W>>) |->
            IF i[1] < ph /\ i[2] < pw
            THEN <<1 + chk * ((i[1] + i[2]) % 2), 1>>
            ELSE Zero],
        "numpy", "float")

InitShift ==
    /\ asset = DefaultAsset
    /\ MemoIdle
    /\ rb = Off /\ rw = Off
    /\ \E H \in 1..MaxSide, W \in 1..MaxSide :
       \E ph \in 1..H, pw \in 1..W, chk \in 0..1,
          dx \in (-(W \div 2))..(W \div 2), dy \in (-(H \div 2))..(H \div 2) :
          sd = [phase |-> "init", tpl |-> PatchTemplate(H, W, ph, pw, chk),
                off |-> <<dx, dy>>]

\* The template circularly placed at offset (dx, dy): dy along the height.
Place ==
    /\ sd.phase = "init"
    /\ sd' = [phase |-> "placed", tpl |-> sd.tpl, off |-> sd.off,
              frame |-> roll(sd.tpl, <<sd.off[2], sd.off[1]>>, <<1, 2>>)]
    /\ UNCHANGED <<asset, cache, loads, files, pc, ret, nfetch, hist, rb, rw>>

\* lines 175-176: the shift is detected and the template rolled by it.
Detect ==
    /\ sd.phase = "placed"
    /\ \E shift \in {best_shift(sd.frame, sd.tpl)} :
         sd' = [phase |-> "detected", tpl |-> sd.tpl, off |-> sd.off,
                frame |-> sd.frame, shift |-> shift,
                best_watermark |-> roll(sd.tpl, <<shift[2], shift[1]>>, <<1, 2>>)]
    /\ UNCHANGED <<asset, cache, loads, files, pc, ret, nfetch, hist, rb, rw>>

NextShift == Place \/ Detect

SpecShift == InitShift /\ [][NextShift]_vars

\* No roll other than a whole number of turns maps the template to itself.
Aperiodic(tpl) ==
    \A k \in Idx2(tpl.shape) : k # <<0, 0>> => roll(tpl, k, <<1, 2>>).at # tpl.at

\* The offsets the detector can return: index n // 2 is zero lag.
InWindow(d, n) == -(n \div 2) <= d /\ d < n - n \div 2

(* C5 as stated: for a template placed at a known integer offset (dx, dy), *)
(* positive or negative, in a frame of either parity, the detector returns *)
(* exactly (dx, dy), and rolling the template by (dy, dx) reproduces the   *)
(* placed watermark.  Stated for templates with a single correlation peak. *)
C5_DetectorReturnsOffset ==
    (sd.phase = "detected" /\ Aperiodic(sd.tpl)) =>
        /\ sd.shift = sd.off
        /\ sd.best_watermark.at = sd.frame.at

(* C5 amended: the detector returns (dx, dy) exactly when the template     *)
(* has a single correlation peak and -(W//2) <= dx < W - W//2 and          *)
(* -(H//2) <= dy < H - H//2; for a larger offset it returns the congruent  *)
(* offset in that window; in every case rolling the template by the        *)
(* returned (dy, dx) reproduces the placed watermark.                      *)
C5_DetectorWindow ==
    sd.phase = "detected" =>
        LET H == sd.tpl.shape[1]
            W == sd.tpl.shape[2]
        IN  /\ sd.best_watermark.at = sd.frame.at
            /\ InWindow(sd.shift[1], W) /\ InWindow(sd.shift[2], H)
            /\ Aperiodic(sd.tpl) =>
                  /\ (sd.shift[1] - sd.off[1]) % W = 0
                  /\ (sd.shift[2] - sd.off[2]) % H = 0
                  /\ (InWindow(sd.off[1], W) /\ InWindow(sd.off[2], H))
                        => sd.shift = sd.off

\* A patch placed at a positive dx and a negative dy in a frame of odd
\* height and even width was detected at exactly that offset.
C5_Witness ==
    /\ sd.phase = "detected"
    /\ sd.tpl.shape[1] % 2 = 1 /\ sd.tpl.shape[2] % 2 = 0
    /\ sd.off[1] > 0 /\ sd.off[2] < 0
    /\ Aperiodic(sd.tpl)
    /\ sd.shift = sd.off

(***************************************************************************)
(* remove_watermark, lines 69-180, and the helpers it dispatches through.  *)
(* A value handed in as the video is an array of backend "numpy" or        *)
(* "torch", a Python list of numpy frames (backend "list"), or some other  *)
(* object (backend "other", no contents).                                  *)
(***************************************************************************)
IsArray(x) == x.backend \in {"numpy", "torch"}

\* lines 13-16
is_uint8(x) ==
    IF IsArray(x) THEN [st |-> "ok", val |-> (x.dtype = "uint8")]
    ELSE [st |-> "TypeError"]

\* lines 48-51
default_form(x) ==
    IF x.backend = "numpy" THEN [st |-> "ok", val |-> "THWC"]
    ELSE IF x.backend = "torch" THEN [st |-> "ok", val |-> "TCHW"]
    ELSE [st |-> "TypeError"]

\* lines 53-58: the values are kept, the backend becomes the target's
like(x, target) == Arr(x.shape, x.at, target.backend, x.dtype)

EagerArr(x) == Arr(x.shape, Eager(x.at, DOMAIN x.at), x.backend, x.dtype)

\* A rearrangement that swaps height and width on the way back.
to_TCWH(x) ==
    Arr(<<x.shape[1], x.shape[4], x.shape[3], x.shape[2]>>,
        [i \in Idx4(<<x.shape[1], x.shape[4], x.shape[3], x.shape[2]>>) |->
            x.at[<<i[1], i[4], i[3], i[2]>>]],
        x.backend, x.dtype)

\* einops.rearrange(x, 'T C H W -> T H W C') on an array
to_THWC(x) ==
    Arr(<<x.shape[1], x.shape[3], x.shape[4], x.shape[2]>>,
        [i \in Idx4(<<x.shape[1], x.shape[3], x.shape[4], x.shape[2]>>) |->
            x.at[<<i[1], i[4], i[2], i[3]>>]],
        x.backend, x.dtype)

\* einops.rearrange(x, 'T H W C -> T C H W') on an array
to_TCHW(x) ==
    Arr(<<x.shape[1], x.shape[4], x.shape[2], x.shape[3]>>,
        [i \in Idx4(<<x.shape[1], x.shape[4], x.shape[2], x.shape[3]>>) |->
            x.at[<<i[1], i[3], i[4], i[2]>>]],
        x.backend, x.dtype)

\* einops.rearrange, lines 105 and 107.  einops stacks a list of arrays
\* into one array of their backend before rearranging, and raises its own
\* RuntimeError for an object of no backend it knows.
rearrange(x, pattern) ==
    IF x.backend = "other" THEN [st |-> "RuntimeError"]
    ELSE LET a == Arr(x.shape, x.at, IF x.backend = "list" THEN "numpy" ELSE x.backend,
                      x.dtype)
         IN  [st |-> "ok",
              val |-> IF pattern = "T C H W -> T H W C" THEN to_THWC(a) ELSE to_TCHW(a)]

\* An in-place division: the operand itself holds the quotient afterwards.
scale_in_place(video) ==
    LET q == Arr(video.shape, [i \in DOMAIN video.at |-> QDiv(video.at[i], <<255, 1>>)],
                 video.backend, "float")
    IN  [out |-> q, arg |-> q]

\* A division by 256.
scale_256(video) ==
    [out |-> Arr(video.shape, [i \in DOMAIN video.at |-> QDiv(video.at[i], <<256, 1>>)],
                 video.backend, "float"),
     arg |-> video]

\* line 161: video / 255 makes a new floating array; arg is the operand
\* as the division leaves it.
scale(video) ==
    [out |-> Arr(video.shape, [i \in DOMAIN video.at |-> QDiv(video.at[i], <<255, 1>>)],
                 video.backend, "float"),
     arg |-> video]

\* line 163: video.mean(0)
mean0(video) ==
    LET T == video.shape[1]
        s == <<video.shape[2], video.shape[3], video.shape[4]>>
    IN  Arr(s,
            [i \in Idx3(s) |->
                QDiv(QSum([t \in 0..(T - 1) |-> video.at[<<t, i[1], i[2], i[3]>>]],
                          0..(T - 1)),
                     <<T, 1>>)],
            video.backend, "float")

\* A crop that fails when asked for more than the image has.
crop_image_strict(image, h, w) ==
    IF h > image.shape[1] \/ w > image.shape[2] THEN [st |-> "ValueError", arg |-> image]
    ELSE [st |-> "ok",
          out |-> Arr(<<h, w, image.shape[3]>>,
                      [i \in Idx3(<<h, w, image.shape[3]>>) |-> image.at[i]],
                      image.backend, image.dtype),
          arg |-> image]

\* line 169: rp.crop_image(image, h, w), origin top left.  It returns a new
\* h x w image: the top-left part of the image where the image is larger,
\* zeros (transparent black) where the image is smaller.
crop_image(image, h, w) ==
    [st |-> "ok",
     out |-> Arr(<<h, w, image.shape[3]>>,
                 [i \in Idx3(<<h, w, image.shape[3]>>) |->
                     IF i[1] < image.shape[1] /\ i[2] < image.shape[2]
                     THEN image.at[i] ELSE Zero],
                 image.backend, image.dtype),
     arg |-> image]

\* line 153: blend_images(0.5, zwatermark) - 0.5, the watermark over mid-gray
blend_minus_half(wm) ==
    Arr(<<wm.shape[1], wm.shape[2], Channels>>,
        [i \in Idx3(<<wm.shape[1], wm.shape[2], Channels>>) |->
            QSub(QAdd(QMul(watermark_alpha(wm, i[1], i[2]), wm.at[i]),
                      QMul(QSub(One, watermark_alpha(wm, i[1], i[2])), Half)),
                 Half)],
        "numpy", "float")

\* line 154: cv_gauss_blur(img, sigma=20).  Over the few pixels of a model
\* frame the kernel is flat: every pixel becomes its channel's mean.
channel_means(img, px) ==
    Eager([c \in 0..(Channels - 1) |->
              QDiv(QSum([q \in px |-> img.at[<<q[1], q[2], c>>]], px),
                   <<img.shape[1] * img.shape[2], 1>>)],
          0..(Channels - 1))

blurred(img, m) == Arr(img.shape, [i \in Idx3(img.shape) |-> m[i[3]]], "numpy", "float")

cv_gauss_blur(img) ==
    blurred(img, channel_means(img, Idx2(<<img.shape[1], img.shape[2]>>)))

\* lines 155-156: as_grayscale_image, the mean of the colour channels
as_grayscale_image(img) ==
    Arr(<<img.shape[1], img.shape[2]>>,
        [i \in Idx2(<<img.shape[1], img.shape[2]>>) |->
            QDiv(QSum([c \in 0..(Channels - 1) |-> img.at[<<i[1], i[2], c>>]],
                      0..(Channels - 1)),
                 <<Channels, 1>>)],
        "numpy", "float")

\* line 154: zavg_frame - cv_gauss_blur(zavg_frame, sigma=20)
minus(x, y) == Arr(x.shape, [i \in DOMAIN x.at |-> QSub(x.at[i], y.at[i])], "numpy", "float")

high_pass(zavg_frame) == minus(zavg_frame, EagerArr(cv_gauss_blur(zavg_frame)))

\* lines 150-158
get_shifts(avg_frame, watermark) ==
    best_shift(EagerArr(as_grayscale_image(high_pass(EagerArr(avg_frame)))),
               EagerArr(as_grayscale_image(blend_minus_half(watermark))))

\* lines 60-66 run by one caller without interruption: the memo lookup,
\* and on a miss the load, the two assertions and the store.
get_watermark_image(c, a) ==
    IF memo_hit(c) THEN [st |-> "ok", val |-> c[1], cache |-> c, loaded |-> 0]
    ELSE IF is_rgba_image(a) /\ is_float_image(a)
    THEN [st |-> "ok", val |-> a.img, cache |-> memo_store(a.img), loaded |-> 1]
    ELSE [st |-> "AssertionError", cache |-> c, loaded |-> 1]

Raised(err, c, loaded, input) ==
    [st |-> err, cache |-> c, loaded |-> loaded, input |-> input]

\* lines 176-180: the template rolled by the shift, the frames recovered.
\* The result carries the returned video (val), the memo and the caller's
\* array as the call leaves them (cache, input), and the cropped template
\* and the shift for inspection.
recovered_with(v, sc, wm, cr, watermark, shifts) ==
    [st |-> "ok",
     val |-> recover_background(v, EagerArr(roll(watermark, <<shifts[2], shifts[1]>>,
                                                 <<1, 2>>))),
     cache |-> <<cr.arg>>, loaded |-> wm.loaded, input |-> sc.arg,
     watermark |-> watermark, shift |-> shifts]

\* lines 170-175: backend matching and shift detection
shifted(v, sc, wm, cr, avg_frame, watermark) ==
    recovered_with(v, sc, wm, cr, watermark, get_shifts(avg_frame, watermark))

\* lines 168-170
cropped(v, sc, wm, cr, avg_frame) ==
    IF cr.st # "ok" THEN Raised(cr.st, <<cr.arg>>, wm.loaded, sc.arg)
    ELSE shifted(v, sc, wm, cr, avg_frame, EagerArr(like(cr.out, avg_frame)))

\* lines 165-169
fetched(v, sc, wm, avg_frame) ==
    IF wm.st # "ok" THEN Raised(wm.st, wm.cache, wm.loaded, sc.arg)
    ELSE cropped(v, sc, wm, crop_image(wm.val, avg_frame.shape[1], avg_frame.shape[2]),
                 avg_frame)

\* lines 163-165
averaged(v, sc, c, a) == fetched(v, sc, get_watermark_image(c, a), EagerArr(mean0(v)))

\* lines 160-161
scaled(video, u8, c, a, sc) == averaged(EagerArr(sc.out), sc, c, a)

checked(video, u8, c, a) ==
    IF u8.st # "ok" THEN Raised(u8.st, c, 0, video)
    ELSE scaled(video, u8, c, a,
                IF u8.val THEN scale(video) ELSE [out |-> video, arg |-> video])

\* lines 160-180, the channel-last path
core(video, c, a) == checked(video, is_uint8(video), c, a)

\* lines 101-108 and then the channel-last path.  form is "None", "THWC"
\* or "TCHW".  The channel-first branch calls remove_watermark again on
\* the rearranged video, which is a view of the caller's array.
RECURSIVE remove_watermark(_, _, _, _)
\* lines 107-108, with the caller's array as the inner call left it
rearranged_back(video, r) ==
    IF r.st # "ok"
    THEN Raised(r.st, r.cache, r.loaded,
                IF IsArray(video) THEN rearrange(r.input, "T H W C -> T C H W").val
                ELSE video)
    ELSE [st |-> "ok",
          val |-> rearrange(r.val, "T H W C -> T C H W").val,
          cache |-> r.cache, loaded |-> r.loaded,
          input |-> IF IsArray(video) THEN rearrange(r.input, "T H W C -> T C H W").val
                    ELSE video,
          watermark |-> r.watermark, shift |-> r.shift]

\* lines 105-106
channel_first(video, v, c, a) ==
    IF v.st # "ok" THEN Raised(v.st, c, 0, video)
    ELSE rearranged_back(video, remove_watermark(v.val, "THWC", c, a))

\* lines 102-104
dispatch(video, df, c, a) ==
    IF df.st # "ok" THEN Raised(df.st, c, 0, video)
    ELSE IF df.val = "TCHW"
    THEN channel_first(video, rearrange(video, "T C H W -> T H W C"), c, a)
    ELSE core(video, c, a)

remove_watermark(video, form, c, a) ==
    dispatch(video,
             IF form = "None" THEN default_form(video) ELSE [st |-> "ok", val |-> form],
             c, a)

(***************************************************************************)
(* Sequential calls of remove_watermark.  One video, given as 8-bit pixel  *)
(* levels, is handed in again and again in some presentation: as itself or *)
(* as the floating video of its levels / 255, channel-last or              *)
(* channel-first, as a numpy array, a torch tensor, a list of frames or an *)
(* object that is no array, with form left out or given.                   *)
(***************************************************************************)
LevelSeq == <<<<0, 1>>, <<128, 1>>, <<255, 1>>>>

CallSeeds == {<<1, 0, 0, 0>>, <<0, 1, 1, 1>>}

BaseVideo(T, H, W, s) ==
    Arr(<<T, H, W, Channels>>,
        [i \in Idx4(<<T, H, W, Channels>>) |->
            Pick(LevelSeq, s[1] + s[2] * i[1] + s[3] * (i[2] * W + i[3]) + s[4] * i[4])],
        "numpy", "uint8")

CallAssets ==
    {[kind |-> "rgba_float", img |-> PatRGBA(1, 1, 2, 1, 0)],
     [kind |-> "rgba_float", img |-> PatRGBA(MaxDim, MaxDim, 0, 1, 0)],
     [kind |-> "rgb_float", img |-> PatRGBA(1, 1, 0, 1, 0)]}

Presentations ==
    [backend : {"numpy", "torch"}, dtype : {"uint8", "float"},
     form : {"None", "THWC", "TCHW"}]
        \cup [backend : {"list"}, dtype : {"uint8"}, form : {"None", "THWC", "TCHW"}]
        \cup [backend : {"other"}, dtype : {"none"}, form : {"None", "THWC", "TCHW"}]

\* The layout a presentation's data is in: the one the call will assume.
LayoutOf(p) ==
    IF p.form # "None" THEN p.form
    ELSE IF p.backend = "torch" THEN "TCHW" ELSE "THWC"

\* The channel-first video with the same data: element (t, c, h, w) is
\* element (t, h, w, c) of x.
Transposed(x) ==
    LET sh == <<x.shape[1], x.shape[4], x.shape[2], x.shape[3]>> IN
    Arr(sh, [i \in Idx4(sh) |-> x.at[<<i[1], i[3], i[4], i[2]>>]], x.backend, x.dtype)

Present(base, p) ==
    IF p.backend = "other" THEN [backend |-> "other"]
    ELSE LET d == IF p.dtype = "float"
                  THEN Arr(base.shape,
                           [i \in DOMAIN base.at |-> Q(base.at[i][1], 255)],
                           base.backend, "float")
                  ELSE base
             l == IF LayoutOf(p) = "TCHW" THEN Transposed(d) ELSE d
         IN  Arr(l.shape, l.at, p.backend, p.dtype)

InitCall ==
    /\ asset \in CallAssets
    /\ MemoIdle
    /\ rb = Off /\ sd = Off
    /\ \E T \in {1, MaxT}, H \in {1, MaxDim}, W \in {1, MaxDim}, s \in CallSeeds :
          rw = [phase |-> "ready", base |-> BaseVideo(T, H, W, s)]

\* What the caller gets: the video, or the error raised.  The cropped
\* template and the shift are kept beside the video for inspection.
Outcome(r) ==
    IF r.st = "ok"
    THEN [st |-> "ok", val |-> r.val, watermark |-> r.watermark, shift |-> r.shift]
    ELSE [st |-> r.st]

\* One call, start to return.  given is the caller's video as handed in,
\* video the same object after the call.
Call(p) ==
    \E x \in {Present(rw.base, p)} :
    \E r \in {remove_watermark(x, p.form, cache, asset)} :
        /\ loads + r.loaded <= MaxFetches
        /\ rw' = [phase |-> "called", base |-> rw.base, p |-> p, given |-> x,
                  video |-> r.input, res |-> Outcome(r)]
        /\ cache' = r.cache
        /\ loads' = loads + r.loaded
        /\ files' = IF r.loaded = 1 THEN load_image(files, asset) ELSE files
        /\ UNCHANGED <<asset, pc, ret, nfetch, hist, rb, sd>>

NextCall == \E p \in Presentations : Call(p)

SpecCall == InitCall /\ [][NextCall]_vars

Called == rw.phase = "called"

FrameH == rw.base.shape[2]

FrameW == rw.base.shape[3]

\* The frame is taller or wider than the stored template.
Exceeds == FrameH > asset.img.shape[1] \/ FrameW > asset.img.shape[2]

\* The returned video in channel-last layout, whatever layout was asked for.
ChannelLast(call) ==
    IF LayoutOf(call.p) = "TCHW"
    THEN LET x == call.res.val
             sh == <<x.shape[1], x.shape[3], x.shape[4], x.shape[2]>>
         IN  [shape |-> sh, at |-> [i \in Idx4(sh) |-> x.at[<<i[1], i[4], i[2], i[3]>>]]]
    ELSE [shape |-> call.res.val.shape, at |-> call.res.val.at]

(* C3: every element of a returned video lies in [0,1], also where the     *)
(* template's alpha is exactly 1.                                          *)
C3_OutputInUnitRange ==
    (Called /\ rw.res.st = "ok") =>
        \A i \in DOMAIN rw.res.val.at : InUnit(rw.res.val.at[i])

\* a is a channel-last call and b a channel-first call on the same data.
LayoutPair(a, b) ==
    /\ a.phase = "called" /\ b.phase = "called"
    /\ IsArray(a.given) /\ IsArray(b.given)
    /\ LayoutOf(a.p) = "THWC" /\ LayoutOf(b.p) = "TCHW"
    /\ b.given = Transposed(a.given)

(* C6: remove_watermark on the channel-first transpose of a video, with    *)
(* form TCHW, returns the channel-first transpose of what it returns for   *)
(* the video itself with form THWC (or fails the same way).  Compared      *)
(* between every two consecutive calls that make such a pair.              *)
C6_LayoutEquivalence ==
    [][\A ab \in {<<rw, rw'>>, <<rw', rw>>} :
          LayoutPair(ab[1], ab[2]) =>
              /\ ab[2].res.st = ab[1].res.st
              /\ ab[1].res.st = "ok" => ab[2].res.val = Transposed(ab[1].res.val)]_vars

\* A channel-first call on a video whose height and width differ returned.
C6_Witness ==
    /\ Called /\ IsArray(rw.given)
    /\ LayoutOf(rw.p) = "TCHW"
    /\ rw.res.st = "ok"
    /\ FrameH # FrameW
    /\ rw.res.val.shape = <<rw.base.shape[1], Channels, FrameH, FrameW>>

\* a holds 8-bit levels and b the floating video of those levels / 255.
ScalePair(a, b) ==
    /\ a.phase = "called" /\ b.phase = "called"
    /\ IsArray(a.given) /\ IsArray(b.given)
    /\ a.p.dtype = "uint8" /\ b.p.dtype = "float"
    /\ a.p.backend = b.p.backend /\ a.p.form = b.p.form

\* Where the rolled template is fully transparent the returned element is
\* the level / 255 for 8-bit input and the given element for float input.
PassedThrough(call) ==
    (call.phase = "called" /\ IsArray(call.given) /\ call.res.st = "ok") =>
        \A i \in Idx4(call.base.shape) :
            watermark_alpha(call.res.watermark,
                            (i[2] - call.res.shift[2]) % call.base.shape[2],
                            (i[3] - call.res.shift[1]) % call.base.shape[3]) = Zero
                => /\ ChannelLast(call).at[i] = Q(call.base.at[i][1], 255)
                   /\ call.p.dtype = "float" =>
                         ChannelLast(call).at[i] =
                             call.given.at[IF LayoutOf(call.p) = "TCHW"
                                           THEN <<i[1], i[4], i[2], i[3]>> ELSE i]

(* C7: for a video of 8-bit levels v, remove_watermark returns what it     *)
(* returns for the floating video v/255, and a floating input is not       *)
(* rescaled.  Compared between every two consecutive calls that differ     *)
(* only in the element type.                                               *)
C7_IntegerScaleEquivalence ==
    [][/\ \A ab \in {<<rw, rw'>>, <<rw', rw>>} :
            ScalePair(ab[1], ab[2]) => ab[2].res = ab[1].res
       /\ PassedThrough(rw')]_vars

\* An 8-bit video holding level 128 was processed and returned.
C7_Witness ==
    /\ Called /\ IsArray(rw.given)
    /\ rw.p.dtype = "uint8"
    /\ rw.res.st = "ok"
    /\ \E i \in DOMAIN rw.given.at : rw.given.at[i] = <<128, 1>>
    /\ \E i \in DOMAIN rw.res.val.at : rw.res.val.at[i] = <<128, 255>>

(* C8 as stated: when the frame is taller or wider than the template, the  *)
(* crop fails and remove_watermark ends in an error, returning no video.   *)
C8_OversizeFrameFails ==
    (Called /\ IsArray(rw.given) /\ Exceeds) => rw.res.st # "ok"

(* C8 amended: when the frame is taller or wider than a valid template,    *)
(* crop_image pads the template with zeros to the frame size and           *)
(* remove_watermark goes on and returns a video of the input's shape.      *)
C8_OversizeFramePadded ==
    (Called /\ IsArray(rw.given) /\ AssetValid /\ Exceeds) =>
        /\ rw.res.st = "ok"
        /\ rw.res.val.shape = rw.given.shape
        /\ rw.res.watermark.shape = <<FrameH, FrameW, Channels + 1>>
        /\ \A i \in Idx3(rw.res.watermark.shape) :
              rw.res.watermark.at[i] =
                  IF i[1] < asset.img.shape[1] /\ i[2] < asset.img.shape[2]
                  THEN asset.img.at[i] ELSE Zero

\* A frame larger than the template both ways came back as a video.
C8_Witness ==
    /\ Called /\ IsArray(rw.given) /\ AssetValid
    /\ FrameH > asset.img.shape[1] /\ FrameW > asset.img.shape[2]
    /\ rw.res.st = "ok"

(* C9: for an input that is neither a numpy array nor a torch tensor, and  *)
(* for every form, remove_watermark raises the unsupported-type TypeError  *)
(* and returns no video.                                                   *)
C9_UnsupportedInputRaises ==
    (Called /\ ~IsArray(rw.given)) => rw.res.st = "TypeError"

(* C10: after any sequence of calls the caller's video holds the values it *)
(* was handed in with, and the cached template those of the stored asset.  *)
C10_InputAndCacheUntouched ==
    /\ Called => rw.video = rw.given
    /\ cache = <<>> \/ cache = <<asset.img>>

\* A channel-first 8-bit video was scaled, the cached template cropped to
\* a smaller frame, and a video returned.
C10_Witness ==
    /\ Called /\ IsArray(rw.given)
    /\ rw.p.dtype = "uint8" /\ LayoutOf(rw.p) = "TCHW"
    /\ rw.res.st = "ok"
    /\ cache # <<>>
    /\ FrameH < asset.img.shape[1]
    /\ loads = 1

====
